---- MODULE Spec2Model ----
(***************************************************************************)
(* SOFEA dashboard mock-up: routing, bar-click drill-down, rotating        *)
(* highlight and the derived series of each page, modelled from            *)
(* src/sofea_light_theme_storyboard_render_ready_app.py (the light theme   *)
(* variant, a superset of src/app.py: same DF, route, bar_click and page   *)
(* functions, plus the rotating highlight).                                *)
(*                                                                         *)
(* Python strings that the code inspects character by character (paths,    *)
(* scientist names) are sequences of one-character strings, so startswith, *)
(* split and replace are computed as Python computes them.                 *)
(***************************************************************************)
EXTENDS Integers, Sequences, FiniteSets, TLC

VARIABLES
    DF,         \* the module-level DataFrame: a sequence of rows
    COHORT,     \* the module-level cohort sample drawn for the histogram
    now_year,   \* datetime.now().year, the calendar year of the wall clock
    pathname,   \* the path of dcc.Location(id="url"): its pathname, and the
                \* href bar_click writes (the model keeps paths only)
    pending,    \* TRUE while the route callback is scheduled for pathname
    router,     \* children of html.Div(id="router"): the rendered page
    hi_index,   \* dcc.Store(id="hi-index").data, NoStore when not mounted
    headline,   \* children of html.Div(id="impact-headline")
    clickData,  \* dcc.Graph(id="scores").clickData
    error,      \* exception raised by the last callback, "none" otherwise
    n_intervals,    \* dcc.Interval(id="hi-interval").n_intervals, NoInterval
                    \* when not mounted
    rotate_pending, \* TRUE while the run of rotate_highlights that follows the
                    \* mounting of its components is scheduled
    dark        \* the dark-theme application (src/app.py) fed the same
                \* events: its router children and its last bar_click result

vars == <<DF, COHORT, now_year, pathname, pending, router, hi_index, headline,
          clickData, error, n_intervals, rotate_pending, dark>>

----------------------------------------------------------------------------
(* Bounds of the model *)

\* number of SCIENTISTS rows kept in the modelled DataFrame
NumSubjects == 3
\* number of distinct values a varied metric column may take
MetricSpread == 2
\* typed-in URLs are concatenations of at most this many PathChunks
MaxChunks == 3
\* number of distinct values a np.random draw of page_detail may take
RandomSpread == 2
\* the timer ticks counted exactly; n_intervals stays at this value afterwards
MaxTicks == 6
\* calendar years the process is followed past the year it started in
MaxYears == 1

----------------------------------------------------------------------------
(* Python values *)

\* Python None, as a sequence no character string can equal
None == <<"<None>">>
\* no dcc.Store mounted
NoStore == -1
\* no dcc.Interval mounted
NoInterval == NoStore
\* the router div before the first route callback
NoPage == [page |-> "none"]

\* str.startswith
StartsWith(s, prefix) ==
    /\ Len(s) >= Len(prefix)
    /\ SubSeq(s, 1, Len(prefix)) = prefix

\* index of the first occurrence of sub in s at or after position from, 0 if none
RECURSIVE Find(_, _, _)
Find(s, sub, from) ==
    IF from + Len(sub) - 1 > Len(s) THEN 0
    ELSE IF SubSeq(s, from, from + Len(sub) - 1) = sub THEN from
    ELSE Find(s, sub, from + 1)

\* str.split(sep): the pieces between the non-overlapping occurrences of sep,
\* scanned left to right
RECURSIVE Split(_, _)
Split(s, sep) ==
    LET k == Find(s, sep, 1) IN
    IF k = 0 THEN <<s>>
    ELSE <<SubSeq(s, 1, k - 1)>> \o Split(SubSeq(s, k + Len(sep), Len(s)), sep)

\* str.replace(old, new): every non-overlapping occurrence, left to right
RECURSIVE Replace(_, _, _)
Replace(s, old, new) ==
    LET k == Find(s, old, 1) IN
    IF k = 0 THEN s
    ELSE SubSeq(s, 1, k - 1) \o new \o Replace(SubSeq(s, k + Len(old), Len(s)), old, new)

\* seq[-1]
Last(seq) == seq[Len(seq)]

\* seq[::-1]
Reverse(seq) == [i \in 1..Len(seq) |-> seq[Len(seq) + 1 - i]]

----------------------------------------------------------------------------
(* Static demonstration data *)

SCIENTISTS == <<
    <<"D","r","."," ","S","a","r","a","h"," ","C","h","e","n">>,
    <<"D","r","."," ","E","m","i","l","y"," ","J","o","h","n","s","o","n">>,
    <<"D","r","."," ","J","a","m","e","s"," ","W","a","s","h","i","n","g","t","o","n">>,
    <<"D","r","."," ","D","i","e","g","o"," ","R","o","s","s","i">>,
    <<"D","r","."," ","E","l","e","n","a"," ","P","a","r","k">>,
    <<"D","r","."," ","F","a","r","a","h"," ","K","h","a","n">>,
    <<"D","r","."," ","M","i","g","u","e","l"," ","A","l","v","a","r","e","z">>,
    <<"D","r","."," ","P","r","i","y","a"," ","S","h","a","r","m","a">>,
    <<"D","r","."," ","N","o","a","h"," ","L","e","e">>,
    <<"D","r","."," ","L","i","l","a"," ","P","a","t","e","l">> >>

IMPACT_HIGHLIGHTS == <<
    "1,245 awardees supported",
    "$1.2B capital raised",
    "6 FDA-approved therapies",
    "78% above national oRCR",
    "42% in leadership roles" >>

\* the columns a page sorts by; SOFEA is kept in tenths (np.round(sofea, 1))
SortCols == {"SOFEA", "AIS", "EIS", "HIS", "SIS"}

\* np.clip bounds of each score column
ClipLo(col) ==
    CASE col = "SOFEA" -> 52
      [] col = "AIS" -> 18
      [] col = "EIS" -> 6
      [] col = "HIS" -> 12
      [] col = "SIS" -> 4

ClipHi(col) ==
    CASE col = "SOFEA" -> 96
      [] col = "AIS" -> 48
      [] col = "EIS" -> 30
      [] col = "HIS" -> 26
      [] col = "SIS" -> 14

\* the draws of one score column the model enumerates
ScoreDraws(col) ==
    {v \in ClipLo(col)..ClipHi(col) : v < ClipLo(col) + MetricSpread}

\* datetime.now().year when the module is imported
StartYear == 2025

\* the cohort sample, in tenths (np.clip(..., 1.0, 9.9)); the model keeps a
\* few of its 1245 values
COHORT_SAMPLE == <<10, 64, 78, 78, 91, 99>>

AwardYearChoices == <<2018, 2019, 2020, 2021, 2022, 2023>>
FieldChoices == <<"Oncology", "Neuroscience", "Immunology">>

\* one row of the DataFrame; the draws not varied by the model are fixed to a
\* value of their np.random.choice / np.clip range
BaseRow(i) ==
    LET award == AwardYearChoices[((i - 1) % Len(AwardYearChoices)) + 1] IN
    [ Scientist |-> SCIENTISTS[i],
      Award_Year |-> award,
      First_Publication_Year |-> award - (2 + ((i - 1) % 5)),
      SOFEA |-> ClipLo("SOFEA") + i,
      AIS |-> ClipLo("AIS") + i,
      EIS |-> ClipLo("EIS") + i,
      HIS |-> ClipLo("HIS") + i,
      SIS |-> ClipLo("SIS") + i,
      Field |-> FieldChoices[((i - 1) % Len(FieldChoices)) + 1],
      Years_Since_Award |-> StartYear - award ]

BaseDF == [i \in 1..NumSubjects |-> BaseRow(i)]

WithColumn(df, col, f) == [i \in DOMAIN df |-> [df[i] EXCEPT ![col] = f[i]]]

\* the DataFrames the seeded generator is modelled to produce: one score
\* column at a time takes every combination of its enumerated draws
DatasetsVarying(col) ==
    { WithColumn(BaseDF, col, f) : f \in [1..NumSubjects -> ScoreDraws(col)] }

Datasets == {BaseDF} \cup UNION { DatasetsVarying(col) : col \in SortCols }

----------------------------------------------------------------------------
(* pandas / plotly calls used by the pages *)

\* numpy argsort(kind="quicksort"): any index order that sorts items
\* ascending; the order of equal items is not specified by the algorithm
Argsort(items) ==
    { p \in [DOMAIN items -> DOMAIN items] :
        /\ \A i, j \in DOMAIN items : i # j => p[i] # p[j]
        /\ \A i, j \in DOMAIN items : i < j => items[p[i]] <= items[p[j]] }

\* pandas nargsort: for ascending=False the items and their positions are
\* reversed, sorted ascending, and the indexer reversed back
Nargsort(items, ascending) ==
    IF ascending THEN Argsort(items)
    ELSE LET n == Len(items)
             rev == Reverse(items)
             idx == Reverse([i \in 1..n |-> i])
         IN { Reverse([i \in 1..n |-> idx[p[i]]]) : p \in Argsort(rev) }

\* sort_values with the ascending flag dropped (pandas' default order)
sort_values_default_order(df, by, ascending) ==
    { [i \in DOMAIN df |-> df[ix[i]]] :
        ix \in Nargsort([i \in DOMAIN df |-> df[i][by]], TRUE) }

\* DataFrame.sort_values(by, ascending): the rows taken in indexer order
sort_values(df, by, ascending) ==
    { [i \in DOMAIN df |-> df[ix[i]]] :
        ix \in Nargsort([i \in DOMAIN df |-> df[i][by]], ascending) }

\* px.bar(df, x="Scientist", y=col): one bar per row, in row order
px_bar(df, col) == [i \in DOMAIN df |-> [x |-> df[i].Scientist, y |-> df[i][col]]]

\* df[["Scientist","Field","Award_Year",col]].to_dict("records")
to_records(df, col) ==
    [i \in DOMAIN df |->
        [Scientist |-> df[i].Scientist, Field |-> df[i].Field,
         Award_Year |-> df[i].Award_Year, value |-> df[i][col]]]

----------------------------------------------------------------------------
(* Pages: the data each page function puts on the page *)

\* sofea_score_bar: the clickable "scores" chart of the Overview page
sofea_score_bar ==
    { px_bar(top_df, "SOFEA") : top_df \in sort_values(DF, "SOFEA", FALSE) }

\* px.histogram(COHORT, nbins=9): the figure carries the sample
histogram_component == COHORT

page_overview ==
    { [page |-> "Overview", scores |-> fig, histogram |-> histogram_component] :
        fig \in sofea_score_bar }

page_bucket(title, metric_col) ==
    { [page |-> "Bucket", title |-> title, metric |-> metric_col,
       bars |-> px_bar(sorted, metric_col),
       table |-> to_records(DF, metric_col)] :
        sorted \in sort_values(DF, metric_col, FALSE) }

page_explorer ==
    { [page |-> "Explorer", table |-> DF] }

\* np.cumsum
RECURSIVE Cumsum(_)
Cumsum(a) ==
    IF a = <<>> THEN <<>>
    ELSE LET front == Cumsum(SubSeq(a, 1, Len(a) - 1)) IN
         Append(front, (IF front = <<>> THEN 0 ELSE Last(front)) + a[Len(a)])

\* the arrays one np.random.poisson(lam, size) call is modelled to return
PoissonDraws(size) == { [i \in 1..size |-> c] : c \in 0..(RandomSpread - 1) }

\* the arrays np.round(np.random.uniform(0.8, 4.1, size), 2) is modelled to
\* return, in hundredths
UniformDraws(size) == { [i \in 1..size |-> 80 + c] : c \in 0..(RandomSpread - 1) }

\* the bucket breakdown with the first two buckets exchanged
breakdown_swapped(r) ==
    << <<"EIS", r.EIS>>, <<"AIS", r.AIS>>, <<"HIS", r.HIS>>, <<"SIS", r.SIS>> >>

\* df_break: Bucket and Score columns of the breakdown chart, row by row
breakdown(r) ==
    << <<"AIS", r.AIS>>, <<"EIS", r.EIS>>, <<"HIS", r.HIS>>, <<"SIS", r.SIS>> >>

\* the success view of page_detail for row r: the header, the KPI row, the
\* breakdown chart, the mock timeline and the mock publications table, the
\* last two drawn from np.random on every call
detail_view(scientist, r) ==
    LET tyears == [k \in 1..(r.Award_Year + 4 - r.First_Publication_Year) |->
                       r.First_Publication_Year + k - 1]
    IN { [page |-> "Detail", scientist |-> scientist, found |-> TRUE,
          Field |-> r.Field, Award_Year |-> r.Award_Year,
          kpis |-> <<r.SOFEA, r.AIS, r.EIS, r.HIS, r.SIS>>,
          breakdown |-> breakdown(r),
          timeline |-> [Year |-> tyears,
                        Publications |-> Cumsum(pubs),
                        Grants |-> Cumsum(grants)],
          publications |-> [Year |-> [i \in 1..5 |-> r.First_Publication_Year + i - 1],
                            oRCR |-> orcr]] :
          pubs \in PoissonDraws(Len(tyears)),
          grants \in PoissonDraws(Len(tyears)),
          orcr \in UniformDraws(5) }

not_found_view(scientist) ==
    { [page |-> "Detail", scientist |-> scientist, found |-> FALSE,
       message |-> "Scientist not found"] }

\* page_detail matching with str.startswith instead of ==
page_detail_prefix(scientist) ==
    LET row == SelectSeq(DF, LAMBDA r : StartsWith(r.Scientist, scientist)) IN
    IF row = <<>> THEN not_found_view(scientist)
    ELSE detail_view(scientist, row[1])

page_detail(scientist) ==
    LET row == SelectSeq(DF, LAMBDA r : r.Scientist = scientist) IN
    IF row = <<>> THEN not_found_view(scientist)
    ELSE detail_view(scientist, row[1])

----------------------------------------------------------------------------
(* Callbacks *)

DETAIL == <<"/","d","e","t","a","i","l","/">>
PCT20 == <<"%","2","0">>
SPACE == <<" ">>
ROOT == <<"/">>
P_AIS == <<"/","a","i","s">>
P_EIS == <<"/","e","i","s">>
P_HIS == <<"/","h","i","s">>
P_SIS == <<"/","s","i","s">>
P_EXPLORER == <<"/","e","x","p","l","o","r","e","r">>

\* route matching the bucket and explorer paths with startswith
route_prefix(path) ==
    IF path = None \/ path = ROOT THEN page_overview
    ELSE IF StartsWith(path, DETAIL)
         THEN page_detail(Replace(Last(Split(path, DETAIL)), PCT20, SPACE))
    ELSE IF StartsWith(path, P_AIS) THEN page_bucket("Academic Impact (AIS)", "AIS")
    ELSE IF StartsWith(path, P_EIS) THEN page_bucket("Economic Impact (EIS)", "EIS")
    ELSE IF StartsWith(path, P_HIS) THEN page_bucket("Health Impact (HIS)", "HIS")
    ELSE IF StartsWith(path, P_SIS) THEN page_bucket("Social Impact (SIS)", "SIS")
    ELSE IF StartsWith(path, P_EXPLORER) THEN page_explorer
    ELSE page_overview

\* route ending in a not-found page instead of the Overview fallback
route_not_found(path) ==
    IF path = None \/ path = ROOT THEN page_overview
    ELSE IF StartsWith(path, DETAIL)
         THEN page_detail(Replace(Last(Split(path, DETAIL)), PCT20, SPACE))
    ELSE IF path = P_AIS THEN page_bucket("Academic Impact (AIS)", "AIS")
    ELSE IF path = P_EIS THEN page_bucket("Economic Impact (EIS)", "EIS")
    ELSE IF path = P_HIS THEN page_bucket("Health Impact (HIS)", "HIS")
    ELSE IF path = P_SIS THEN page_bucket("Social Impact (SIS)", "SIS")
    ELSE IF path = P_EXPLORER THEN page_explorer
    ELSE { [page |-> "NotFound"] }

\* route drilling down to the last clicked bar whatever the path
route_click_aware(path) ==
    IF clickData.points # <<>> THEN page_detail(clickData.points[1].x)
    ELSE IF path = None \/ path = ROOT THEN page_overview
    ELSE IF StartsWith(path, DETAIL)
         THEN page_detail(Replace(Last(Split(path, DETAIL)), PCT20, SPACE))
    ELSE IF path = P_AIS THEN page_bucket("Academic Impact (AIS)", "AIS")
    ELSE IF path = P_EIS THEN page_bucket("Economic Impact (EIS)", "EIS")
    ELSE IF path = P_HIS THEN page_bucket("Health Impact (HIS)", "HIS")
    ELSE IF path = P_SIS THEN page_bucket("Social Impact (SIS)", "SIS")
    ELSE IF path = P_EXPLORER THEN page_explorer
    ELSE page_overview

\* route(path): the page put into the router div
route(path) ==
    IF path = None \/ path = ROOT THEN page_overview
    ELSE IF StartsWith(path, DETAIL)
         THEN page_detail(Replace(Last(Split(path, DETAIL)), PCT20, SPACE))
    ELSE IF path = P_AIS THEN page_bucket("Academic Impact (AIS)", "AIS")
    ELSE IF path = P_EIS THEN page_bucket("Economic Impact (EIS)", "EIS")
    ELSE IF path = P_HIS THEN page_bucket("Health Impact (HIS)", "HIS")
    ELSE IF path = P_SIS THEN page_bucket("Social Impact (SIS)", "SIS")
    ELSE IF path = P_EXPLORER THEN page_explorer
    ELSE page_overview

\* click payloads: Python None, and {"points": [{"x": label}]}
NoClick == [points |-> <<>>, none |-> TRUE]
Click(label) == [points |-> <<[x |-> label]>>, none |-> FALSE]
\* not cd
Falsy(cd) == cd.none

\* bar_click encoding the spaces of the name as "+" (quote_plus)
bar_click_quote_plus(cd) ==
    IF cd.none THEN [raised |-> "NameError", value |-> None]
    ELSE LET name == cd.points[1].x IN
         [raised |-> "none", value |-> DETAIL \o Replace(name, SPACE, <<"+">>)]

\* bar_click(cd): the href returned, or the exception raised.  Neither
\* variant binds the name dash (only names from dash are imported), so
\* evaluating dash.no_update raises NameError.
bar_click(cd) ==
    IF Falsy(cd) THEN [raised |-> "NameError", value |-> None]
    ELSE LET name == cd.points[1].x IN
         [raised |-> "none", value |-> DETAIL \o name]

\* the dark-theme route without the "%20" replacement
route_dark_raw(path) ==
    IF path = None \/ path = ROOT THEN page_overview
    ELSE IF StartsWith(path, DETAIL)
         THEN page_detail(Last(Split(path, DETAIL)))
    ELSE IF path = P_AIS THEN page_bucket("Academic Impact (AIS)", "AIS")
    ELSE IF path = P_EIS THEN page_bucket("Economic Impact (EIS)", "EIS")
    ELSE IF path = P_HIS THEN page_bucket("Health Impact (HIS)", "HIS")
    ELSE IF path = P_SIS THEN page_bucket("Social Impact (SIS)", "SIS")
    ELSE IF path = P_EXPLORER THEN page_explorer
    ELSE page_overview

\* route(path) of the dark-theme variant.  Its page functions build the same
\* view data from the DataFrame as the light-theme ones, so the page
\* operators above stand for both.
route_dark(path) ==
    IF path = None \/ path = ROOT THEN page_overview
    ELSE IF StartsWith(path, DETAIL)
         THEN page_detail(Replace(Last(Split(path, DETAIL)), PCT20, SPACE))
    ELSE IF path = P_AIS THEN page_bucket("Academic Impact (AIS)", "AIS")
    ELSE IF path = P_EIS THEN page_bucket("Economic Impact (EIS)", "EIS")
    ELSE IF path = P_HIS THEN page_bucket("Health Impact (HIS)", "HIS")
    ELSE IF path = P_SIS THEN page_bucket("Social Impact (SIS)", "SIS")
    ELSE IF path = P_EXPLORER THEN page_explorer
    ELSE page_overview

\* bar_click(cd) of the dark-theme variant; dash is not bound there either
bar_click_dark(cd) ==
    IF Falsy(cd) THEN [raised |-> "NameError", value |-> None]
    ELSE LET name == cd.points[1].x IN
         [raised |-> "none", value |-> DETAIL \o name]

\* rotate_highlights showing the highlight at the index it was given
rotate_highlights_stale(idx) ==
    LET i == (idx + 1) % Len(IMPACT_HIGHLIGHTS) IN
    <<IMPACT_HIGHLIGHTS[idx + 1], i>>

\* rotate_highlights stopping at the last highlight instead of wrapping
rotate_highlights_stuck(idx) ==
    LET i == IF idx + 1 < Len(IMPACT_HIGHLIGHTS) THEN idx + 1 ELSE idx IN
    <<IMPACT_HIGHLIGHTS[i + 1], i>>

\* rotate_highlights(n, idx): the headline and the new index
rotate_highlights(idx) ==
    LET i == (idx + 1) % Len(IMPACT_HIGHLIGHTS) IN
    <<IMPACT_HIGHLIGHTS[i + 1], i>>

----------------------------------------------------------------------------
(* Inputs *)

\* hrefs of the dcc.Link elements of topnav (on every page)
NavLinks == {ROOT, P_AIS, P_EIS, P_HIS, P_SIS, P_EXPLORER}

\* the links on the rendered page: topnav, and "Back to Overview" on a
\* detail page (also "/")
Links(view) == IF view = NoPage THEN {} ELSE NavLinks

\* pieces a typed-in URL is assembled from
PathChunks ==
    { ROOT, DETAIL, PCT20,
      <<"a","i","s">>, <<"A","I","S">>,
      <<"e","x","p","l","o","r","e","r">>,
      <<"C","h","e","n">>,
      SCIENTISTS[1],
      <<"D","r",".","%","2","0","S","a","r","a","h","%","2","0","C","h","e","n">> }

RECURSIVE Concats(_)
Concats(k) ==
    IF k = 0 THEN {<<>>}
    ELSE LET shorter == Concats(k - 1) IN
         shorter \cup { s \o c : s \in shorter, c \in PathChunks }

\* the pathname the browser may open the application at
PathInputs == {None} \cup NavLinks \cup Concats(MaxChunks)

\* the payloads a click on the "scores" chart of the page may deliver
ClickPayloads(view) ==
    {NoClick} \cup { Click(view.scores[i].x) : i \in DOMAIN view.scores }

----------------------------------------------------------------------------
(* State machine *)

\* the dark-theme application before its first callback
NoReturn == [raised |-> "not called", value |-> None]
NoDark == [router |-> NoPage, ret |-> NoReturn]

\* Process start and first page load: the DataFrame and the cohort sample are
\* built, Years_Since_Award is computed from the year of the wall clock, the
\* layout is the Location and an empty router div, and the route callback is
\* scheduled with the pathname the browser was opened at.
Start(datasets, paths) ==
    /\ DF \in datasets
    /\ COHORT = COHORT_SAMPLE
    /\ now_year = StartYear
    /\ pathname \in paths
    /\ pending = TRUE
    /\ router = NoPage
    /\ hi_index = NoStore
    /\ headline = ""
    /\ clickData = NoClick
    /\ error = "none"
    /\ n_intervals = NoInterval
    /\ rotate_pending = FALSE
    /\ dark = NoDark

\* The application opened at any typed-in URL, against the base DataFrame.
Init == Start({BaseDF}, PathInputs)

\* The page functions alone: every DataFrame, opened at each navigation link.
InitPages == Start(Datasets, NavLinks)

\* the route callback keeping the data of a mounted hi-index store
RouteCallbackKeepIndex ==
    /\ pending
    /\ \E view \in route(pathname) :
        /\ router' = view
        /\ hi_index' = IF view.page = "Overview"
                       THEN (IF hi_index # NoStore THEN hi_index ELSE 0)
                       ELSE NoStore
        /\ n_intervals' = IF view.page = "Overview" THEN 0 ELSE NoInterval
        /\ rotate_pending' = (view.page = "Overview")
    /\ headline' = ""
    /\ clickData' = NoClick
    /\ pending' = FALSE
    /\ error' = "none"
    /\ UNCHANGED <<DF, COHORT, now_year, pathname, dark>>

\* the route callback sorting the module-level DataFrame in place
RouteCallbackInplace ==
    /\ pending
    /\ \E view \in route(pathname) :
        /\ router' = view
        /\ hi_index' = IF view.page = "Overview" THEN 0 ELSE NoStore
        /\ n_intervals' = IF view.page = "Overview" THEN 0 ELSE NoInterval
        /\ rotate_pending' = (view.page = "Overview")
    /\ DF' \in sort_values(DF, "AIS", FALSE)
    /\ headline' = ""
    /\ clickData' = NoClick
    /\ pending' = FALSE
    /\ error' = "none"
    /\ UNCHANGED <<COHORT, now_year, pathname, dark>>

\* the route callback runs for the current pathname and replaces the page;
\* page_overview mounts dcc.Interval(id="hi-interval", n_intervals=0) and
\* dcc.Store(id="hi-index", data=0), the other pages mount neither; every new
\* page starts with no click data.  rotate_highlights is registered without
\* prevent_initial_call (bar_click is registered with it), so mounting its
\* components schedules one run of it.
RouteCallback ==
    /\ pending
    /\ \E view \in route(pathname) :
        /\ router' = view
        /\ hi_index' = IF view.page = "Overview" THEN 0 ELSE NoStore
        /\ n_intervals' = IF view.page = "Overview" THEN 0 ELSE NoInterval
        /\ rotate_pending' = (view.page = "Overview")
    /\ headline' = ""
    /\ clickData' = NoClick
    /\ pending' = FALSE
    /\ error' = "none"
    /\ UNCHANGED <<DF, COHORT, now_year, pathname, dark>>

\* a dcc.Link of the page to another path is followed: the pathname changes
\* and the route callback is scheduled
Navigate ==
    /\ \E l \in Links(router) :
        /\ l # pathname
        /\ pathname' = l
    /\ pending' = TRUE
    /\ UNCHANGED <<DF, COHORT, now_year, router, hi_index, headline, clickData,
                   error, n_intervals, rotate_pending, dark>>

\* a click on the "scores" chart runs bar_click; a returned href is written
\* to the Location, whose pathname follows it and schedules route
BarClick ==
    /\ router.page = "Overview"
    /\ \E cd \in ClickPayloads(router) :
        LET res == bar_click(cd) IN
        /\ clickData' = cd
        /\ error' = res.raised
        /\ IF res.raised = "none"
           THEN /\ pathname' = res.value
                /\ pending' = TRUE
           ELSE UNCHANGED <<pathname, pending>>
    /\ UNCHANGED <<DF, COHORT, now_year, router, hi_index, headline,
                   n_intervals, rotate_pending, dark>>

\* one run of rotate_highlights with the stored index as its State: both
\* outputs are written together
Rotate ==
    /\ router.page = "Overview"
    /\ hi_index # NoStore
    /\ LET out == rotate_highlights(hi_index) IN
        /\ headline' = out[1]
        /\ hi_index' = out[2]
    /\ error' = "none"
    /\ UNCHANGED <<DF, COHORT, now_year, pathname, pending, router, clickData,
                   dark>>

\* the run of rotate_highlights scheduled when the Overview page was mounted
RotateInitial ==
    /\ rotate_pending
    /\ Rotate
    /\ rotate_pending' = FALSE
    /\ UNCHANGED n_intervals

\* the hi-interval timer fires: n_intervals counts the tick (exactly up to
\* MaxTicks) and rotate_highlights runs
Tick ==
    /\ Rotate
    /\ n_intervals' = IF n_intervals < MaxTicks THEN n_intervals + 1
                      ELSE n_intervals
    /\ UNCHANGED rotate_pending

\* the wall clock passes into the next calendar year while the process runs
NewYear ==
    /\ now_year < StartYear + MaxYears
    /\ now_year' = now_year + 1
    /\ UNCHANGED <<DF, COHORT, pathname, pending, router, hi_index, headline,
                   clickData, error, n_intervals, rotate_pending, dark>>

\* both variants run their route callback for the same pathname
RouteBoth ==
    /\ pending
    /\ \E view \in route(pathname) :
        /\ router' = view
        /\ hi_index' = IF view.page = "Overview" THEN 0 ELSE NoStore
        /\ n_intervals' = IF view.page = "Overview" THEN 0 ELSE NoInterval
        /\ rotate_pending' = (view.page = "Overview")
    /\ \E view \in route_dark(pathname) :
        dark' = [router |-> view, ret |-> NoReturn]
    /\ headline' = ""
    /\ clickData' = NoClick
    /\ pending' = FALSE
    /\ error' = "none"
    /\ UNCHANGED <<DF, COHORT, now_year, pathname>>

\* both variants run bar_click for the same click payload
ClickBoth ==
    /\ router.page = "Overview"
    /\ \E cd \in ClickPayloads(router) :
        LET res == bar_click(cd) IN
        /\ clickData' = cd
        /\ error' = res.raised
        /\ IF res.raised = "none"
           THEN /\ pathname' = res.value
                /\ pending' = TRUE
           ELSE UNCHANGED <<pathname, pending>>
        /\ dark' = [dark EXCEPT !.ret = bar_click_dark(cd)]
    /\ UNCHANGED <<DF, COHORT, now_year, router, hi_index, headline,
                   n_intervals, rotate_pending>>

Next == RouteCallback \/ Navigate \/ BarClick \/ RotateInitial \/ Tick

Spec == Init /\ [][Next]_vars

\* first render of each page, for the claims about the page functions
NextPages == RouteCallback
SpecPages == InitPages /\ [][NextPages]_vars

\* the process followed over the turn of a year
InitClock == Start({BaseDF}, NavLinks)
NextClock == RouteCallback \/ Navigate \/ RotateInitial \/ Tick \/ NewYear
SpecClock == InitClock /\ [][NextClock]_vars

\* the two variants side by side, fed the same typed-in URLs and clicks
InitVariants == Start({BaseDF}, PathInputs)
NextVariants == RouteBoth \/ ClickBoth
SpecVariants == InitVariants /\ [][NextVariants]_vars

\* the Overview page left displayed: dcc.Interval keeps firing every 2500 ms
\* (max_intervals is left at -1), and a scheduled callback is run
InitLive == Start(DatasetsVarying("SOFEA"), {None, ROOT})
NextLive == RouteCallback \/ RotateInitial \/ Tick
SpecLive ==
    /\ InitLive
    /\ [][NextLive]_vars
    /\ WF_vars(RouteCallback)
    /\ WF_vars(RotateInitial)
    /\ WF_vars(Tick)

----------------------------------------------------------------------------
(* Properties *)

BucketPaths == {P_AIS, P_EIS, P_HIS, P_SIS}

\* the page shown is the one route rendered for the current pathname
Routed == ~pending /\ router # NoPage

\* the step taken is a run of the route callback
RouteStep == pending /\ ~pending'

\* the path with its leading "/detail/" removed
Remainder(path) == SubSeq(path, Len(DETAIL) + 1, Len(path))

\* C1: for every path beginning with "/detail/", route selects the Detail
\* page whose subjectName is the whole remainder of the path after that
\* prefix with every "%20" replaced by a space, also when the remainder
\* itself contains "/detail/".
C1_DetailWholeRemainder ==
    (Routed /\ StartsWith(pathname, DETAIL)) =>
        /\ router.page = "Detail"
        /\ router.scientist = Replace(Remainder(pathname), PCT20, SPACE)

\* C2: exactly the paths "/ais", "/eis", "/his", "/sis" select the Bucket page,
\* each with its own metric key, and exactly "/explorer" selects Explorer.
C2_BucketExplorerExact ==
    Routed =>
        /\ router.page = "Bucket" <=> pathname \in BucketPaths
        /\ pathname = P_AIS => (router.page = "Bucket" /\ router.metric = "AIS")
        /\ pathname = P_EIS => (router.page = "Bucket" /\ router.metric = "EIS")
        /\ pathname = P_HIS => (router.page = "Bucket" /\ router.metric = "HIS")
        /\ pathname = P_SIS => (router.page = "Bucket" /\ router.metric = "SIS")
        /\ router.page = "Explorer" <=> pathname = P_EXPLORER

C2_Witness ==
    /\ Routed
    /\ pathname = P_SIS
    /\ router.page = "Bucket"
    /\ router.metric = "SIS"

\* C3: a path that is absent, empty, "/" or matches none of the Detail,
\* Bucket and Explorer rules yields the Overview page: route returns that
\* page, neither an error nor a not-found page.
C3_FallbackOverview ==
    (/\ Routed
     /\ ~StartsWith(pathname, DETAIL)
     /\ pathname \notin BucketPaths \cup {P_EXPLORER}) =>
        router.page = "Overview"

C3_Witness ==
    /\ Routed
    /\ pathname = <<"/","A","I","S">>
    /\ router.page = "Overview"

\* the page kind and parameter of a rendered page
Selection(view) ==
    CASE view.page = "Bucket" -> <<"Bucket", view.metric>>
      [] view.page = "Detail" -> <<"Detail", view.scientist>>
      [] OTHER -> <<view.page>>

\* a selection for each path that reads nothing but the path
SelectionOf(path) ==
    IF StartsWith(path, DETAIL)
    THEN <<"Detail", Replace(Last(Split(path, DETAIL)), PCT20, SPACE)>>
    ELSE CASE path = P_AIS -> <<"Bucket", "AIS">>
           [] path = P_EIS -> <<"Bucket", "EIS">>
           [] path = P_HIS -> <<"Bucket", "HIS">>
           [] path = P_SIS -> <<"Bucket", "SIS">>
           [] path = P_EXPLORER -> <<"Explorer">>
           [] OTHER -> <<"Overview">>

\* C4 as stated: every run of route selects the page that depends on the path
\* alone, and changes neither the dataset, nor the URL, nor a rotation index
\* that exists before and after it.
C4_RouteModifiesNoState ==
    [][ RouteStep =>
          /\ Selection(router') = SelectionOf(pathname)
          /\ DF' = DF
          /\ pathname' = pathname
          /\ (hi_index # NoStore /\ hi_index' # NoStore) => hi_index' = hi_index
      ]_vars

\* C4 amended: every run of route selects the page that depends on the path
\* alone and changes neither the dataset nor the URL; the rotation index is
\* not kept: it is 0 after Overview is rendered and absent after any other
\* page is.
C4_RouteHistoryIndependent ==
    [][ RouteStep =>
          /\ Selection(router') = SelectionOf(pathname)
          /\ DF' = DF
          /\ pathname' = pathname
          /\ hi_index' = (IF router'.page = "Overview" THEN 0 ELSE NoStore)
      ]_vars

\* route has run for a path only a bar click produces
C4_Witness ==
    /\ Routed
    /\ pathname = DETAIL \o SCIENTISTS[2]
    /\ router.page = "Detail"

\* C5: the target bar_click returns for the clicked label of a dataset
\* subject is resolved by route to the Detail page of that same subject, never
\* to the not-found page.
C5_ClickRoundTrip ==
    [][ (/\ RouteStep
         /\ ~Falsy(clickData)
         /\ pathname = bar_click(clickData).value) =>
          /\ router'.page = "Detail"
          /\ router'.scientist = clickData.points[1].x
          /\ router'.found
      ]_vars

C5_Witness ==
    /\ Routed
    /\ router.page = "Detail"
    /\ router.found
    /\ router.scientist = SCIENTISTS[3]
    /\ pathname = DETAIL \o SCIENTISTS[3]

\* C6: the path bar_click returns holds no literal space in its name segment.
C6_TargetIsEncoded ==
    (pending /\ ~Falsy(clickData)) =>
        \A i \in DOMAIN pathname : pathname[i] # " "

\* C7: page_detail gives the not-found view, without raising, for a name that
\* matches no record (the empty name included), and the success view of the
\* matching record otherwise.
C7_DetailLookup ==
    router.page = "Detail" =>
        LET matches == {i \in DOMAIN DF : DF[i].Scientist = router.scientist} IN
        /\ error = "none"
        /\ matches = {} => (~router.found /\ router.message = "Scientist not found")
        /\ matches # {} =>
            /\ router.found
            /\ \E i \in matches :
                /\ router.Field = DF[i].Field
                /\ router.Award_Year = DF[i].Award_Year
                /\ router.kpis = <<DF[i].SOFEA, DF[i].AIS, DF[i].EIS, DF[i].HIS, DF[i].SIS>>

C7_Witness ==
    /\ Routed
    /\ pathname = DETAIL
    /\ router.page = "Detail"
    /\ router.scientist = <<>>
    /\ ~router.found

\* the series is a permutation of the records' (name, value) pairs, as long
\* as the dataset, with values non-increasing
SortedSeries(series, col) ==
    /\ Len(series) = Len(DF)
    /\ \E p \in [DOMAIN DF -> DOMAIN DF] :
        /\ \A i, j \in DOMAIN DF : i # j => p[i] # p[j]
        /\ \A i \in DOMAIN DF :
            series[i] = [x |-> DF[p[i]].Scientist, y |-> DF[p[i]][col]]
    /\ \A i, j \in DOMAIN series : i < j => series[i].y >= series[j].y

\* C8: the series of each bucket chart, and of the SOFEA chart, is a
\* permutation of all records, of the dataset's length, with non-increasing
\* metric values.
C8_ChartSortedPermutation ==
    /\ router.page = "Bucket" => SortedSeries(router.bars, router.metric)
    /\ router.page = "Overview" => SortedSeries(router.scores, "SOFEA")

\* a chart whose order is not the insertion order and that holds a tie
C8_Witness ==
    /\ router.page = "Bucket"
    /\ router.metric = "HIS"
    /\ router.bars[1].x # DF[1].Scientist
    /\ \E i, j \in DOMAIN router.bars : i # j /\ router.bars[i].y = router.bars[j].y

\* position of the record of that name in the dataset
RowOf(name) == CHOOSE i \in DOMAIN DF : DF[i].Scientist = name

\* C9: records with equal metric value appear in the chart in their
\* insertion order.
C9_StableTies ==
    router.page = "Bucket" =>
        \A i, j \in DOMAIN router.bars :
            (i < j /\ router.bars[i].y = router.bars[j].y) =>
                RowOf(router.bars[i].x) < RowOf(router.bars[j].x)

\* C10: the rows of a Bucket page's table are in the order of its chart's bars.
C10_TableOrderMatchesChart ==
    router.page = "Bucket" =>
        /\ Len(router.table) = Len(router.bars)
        /\ \A i \in DOMAIN router.table :
            /\ router.table[i].Scientist = router.bars[i].x
            /\ router.table[i].value = router.bars[i].y

\* C11: counted from the mounting of the Overview page (index 0), after k
\* timer ticks the stored index is k mod n (n the number of highlights), so
\* that after n ticks the rotation is back where it was after 0 ticks.
C11_IndexIsTicksModN ==
    (router.page = "Overview" /\ hi_index # NoStore /\ n_intervals < MaxTicks) =>
        /\ hi_index = n_intervals % Len(IMPACT_HIGHLIGHTS)
        /\ n_intervals = Len(IMPACT_HIGHLIGHTS) => hi_index = 0

\* C12: no step (route of any page, bar click, rotation) changes a record of
\* the DataFrame or a value of the cohort sample.
C12_DatasetReadOnly == [][DF' = DF /\ COHORT' = COHORT]_vars

\* a drill-down scheduled by a bar click on an Overview page that had been
\* routed and had rotated
C12_Witness ==
    /\ pending
    /\ router.page = "Overview"
    /\ router.histogram = COHORT_SAMPLE
    /\ ~Falsy(clickData)
    /\ hi_index = 2
    /\ DF = BaseDF

\* C13: the view data of a rendered Detail page of an existing subject (its
\* breakdown, timeline series and publication table) is the view data of
\* every render of page_detail for that name on this dataset.
C13_DetailDeterministic ==
    (Routed /\ router.page = "Detail" /\ router.found) =>
        \A v \in page_detail(router.scientist) :
            /\ v.breakdown = router.breakdown
            /\ v.timeline = router.timeline
            /\ v.publications = router.publications

\* C14: in every state each record's Years_Since_Award, in the DataFrame and
\* in the table of a rendered Explorer page, is the current year minus the
\* record's Award_Year, also after the year of the wall clock has advanced.
C14_YearsSinceAwardCurrent ==
    /\ \A i \in DOMAIN DF :
        DF[i].Years_Since_Award = now_year - DF[i].Award_Year
    /\ (Routed /\ router.page = "Explorer") =>
        \A i \in DOMAIN router.table :
            router.table[i].Years_Since_Award = now_year - router.table[i].Award_Year

\* C15: the breakdown of a found Detail page is (AIS, EIS, HIS, SIS) in that
\* order, each with the sub-score of the record of that name.
C15_BreakdownOrder ==
    (Routed /\ router.page = "Detail" /\ router.found) =>
        LET r == DF[RowOf(router.scientist)] IN
        router.breakdown =
            << <<"AIS", r.AIS>>, <<"EIS", r.EIS>>, <<"HIS", r.HIS>>, <<"SIS", r.SIS>> >>

\* the Detail page of the second record, whose sub-scores differ pairwise
C15_Witness ==
    /\ Routed
    /\ router.page = "Detail"
    /\ router.found
    /\ router.scientist = SCIENTISTS[2]
    /\ router.breakdown[2] = <<"EIS", DF[2].EIS>>
    /\ Cardinality({DF[2].AIS, DF[2].EIS, DF[2].HIS, DF[2].SIS}) = 4

\* C16: fed the same path, the two variants render pages of the same kind and
\* parameter; fed the same click payload, their bar_click handlers give the
\* same result (the same target, or the same failure).
C16_VariantsAgree ==
    /\ (Routed /\ dark.router # NoPage) =>
        Selection(dark.router) = Selection(router)
    /\ dark.ret # NoReturn =>
        /\ dark.ret.raised = error
        /\ error = "none" => (pending /\ dark.ret.value = pathname)

\* both variants opened on "/" and handed the click on the first subject's bar
C16_Witness ==
    /\ router.page = "Overview"
    /\ dark.router.page = "Overview"
    /\ clickData = Click(SCIENTISTS[1])
    /\ dark.ret = [raised |-> "none", value |-> DETAIL \o SCIENTISTS[1]]
    /\ pathname = DETAIL \o SCIENTISTS[1]

\* C17: a run of bar_click with an empty or absent click payload raises
\* nothing and leaves the URL as it was, scheduling no navigation.
C17_EmptyClickCompletes ==
    [][ (BarClick /\ Falsy(clickData')) =>
          /\ error' = "none"
          /\ pathname' = pathname
          /\ pending' = pending
      ]_vars

\* C18: in every state a mounted index store holds an integer in 0..n-1 (n the
\* number of impact highlights), and a displayed headline is the highlight at
\* the stored index.
C18_HeadlineAtStoredIndex ==
    /\ hi_index # NoStore => hi_index \in 0..(Len(IMPACT_HIGHLIGHTS) - 1)
    /\ headline # "" =>
        /\ hi_index # NoStore
        /\ headline = IMPACT_HIGHLIGHTS[hi_index + 1]

\* the last highlight displayed, three ticks after the Overview was mounted
C18_Witness ==
    /\ router.page = "Overview"
    /\ n_intervals = 3
    /\ hi_index = Len(IMPACT_HIGHLIGHTS) - 1
    /\ headline = IMPACT_HIGHLIGHTS[Len(IMPACT_HIGHLIGHTS)]

\* C19: every run of route that renders the Overview page leaves a new index
\* store holding 0 and a new timer, whatever index and tick count the page
\* before it had reached, and the rotation starts again from that 0: the
\* first headline displayed afterwards is the one following index 0.
C19_OverviewRenderResetsIndex ==
    [][ /\ (RouteStep /\ router'.page = "Overview") =>
              /\ hi_index' = 0
              /\ n_intervals' = 0
              /\ headline' = ""
        /\ (headline = "" /\ headline' # "") =>
              /\ hi_index = 0
              /\ hi_index' = 1
              /\ headline' = IMPACT_HIGHLIGHTS[2]
      ]_vars

\* an Overview page two ticks into its rotation (index 3), left through the
\* link to "/" while opened at another path: route is about to render the
\* Overview again
C19_Witness ==
    /\ pending
    /\ pathname = ROOT
    /\ router.page = "Overview"
    /\ n_intervals = 2
    /\ hi_index = 3
    /\ headline = IMPACT_HIGHLIGHTS[4]

\* C20: with the Overview page left displayed and the timer firing for ever,
\* every impact highlight is displayed again and again, each change of
\* headline goes to the next highlight of the list (the first after the
\* last), and a tick always remains possible once the page is rendered.
C20_EveryHighlightRecurs ==
    /\ \A i \in 1..Len(IMPACT_HIGHLIGHTS) : []<>(headline = IMPACT_HIGHLIGHTS[i])
    /\ [][ (headline # "" /\ headline' # headline) =>
             \E i \in 1..Len(IMPACT_HIGHLIGHTS) :
                /\ headline = IMPACT_HIGHLIGHTS[i]
                /\ headline' = IMPACT_HIGHLIGHTS[(i % Len(IMPACT_HIGHLIGHTS)) + 1]
         ]_vars
    /\ [](router.page = "Overview" => ENABLED Tick)

\* the rotation has wrapped around: the first highlight of the list is
\* displayed, four ticks after the page was mounted
C20_Witness ==
    /\ router.page = "Overview"
    /\ ~rotate_pending
    /\ n_intervals = 4
    /\ hi_index = 0
    /\ headline = IMPACT_HIGHLIGHTS[1]

====
